---- MODULE Spec2Model ----
(***************************************************************************)
(* NetSentinel (src/app.py): a Streamlit page that keeps a device          *)
(* inventory in SQLite, polls every device over SSH from a pool of worker  *)
(* threads, sends the combined transcript to a local LLM once, and stores  *)
(* one task row plus one detail row per device and one report row.         *)
(*                                                                         *)
(* One browser session is modelled.  Every interaction re-runs main(),     *)
(* which builds a new DBManager (a new sqlite3 connection).  The batch     *)
(* inspection run is the only handler that is not atomic: its worker       *)
(* threads and its blocking calls are separate steps.  Interactions are    *)
(* taken only while no script run is in progress.                          *)
(***************************************************************************)
EXTENDS Integers, Sequences, FiniteSets, TLC

\* ------------------------------------------------------------- constants
MAX_WORKERS == 5

\* ---------------------------------------------------------------- bounds
\* add_device calls over the life of the store (AUTOINCREMENT high-water)
MaxAdds == 1
\* batch runs that pass the preconditions
MaxBatches == 1
\* size of the inventory a single batch run starts from
MaxDevices == 3
\* devices beyond the worker budget in the pool specification
Excess == 1

\* ---------------------------------------------------------------- values
AI_FULL_REPORT == "AI_FULL_REPORT"
None == "None"

\* what the add-device form can hold; "" is an empty text input
Hostnames == {"", "SW1", AI_FULL_REPORT}
IPs == {"", "10.0.0.1"}
Usernames == {"", "admin"}
Passwords == {"", "secret"}

\* the selectbox over get_ollama_models(); None when the list is empty
ModelChoices == {None, "qwen"}

\* how one collect_data call can end
SessionOutcomes == {"ok", "connect_error", "command_error"}

\* how the POST of analyze_log can end
HttpOutcomes ==
  {"200_text", "200_empty", "non_200", "ReadTimeout", "ConnectionError", "other"}

\* a piece of text: the log of a device, an error message, or Python's None
NoText == [kind |-> None, hostname |-> "", ip |-> ""]
EmptyText == [kind |-> "", hostname |-> "", ip |-> ""]

\* ----------------------------------------------------------------- state
VARIABLES
  db_devices,      \* committed rows of table devices, in rowid order
  dev_seq,         \* AUTOINCREMENT high-water mark of devices.id
  db_tasks,        \* committed rows of table inspection_tasks
  db_details,      \* committed rows of table inspection_details
  conn,            \* db.conn of the current script run: its open transaction
  pc,              \* position of the script run
  msg,             \* the st.warning / st.error / st.success last shown
  devices,         \* main(): devices = db.get_devices()
  selected_model,  \* main(): selected_model
  futures,         \* future_to_device: the state of each submitted future
  outcomes,        \* how the session to each device ends in this run
  device_results,  \* main(): device_results
  all_raw_data,    \* main(): all_raw_data, as its list of device sections
  collected_count, \* main(): collected_count
  ai_res,          \* main(): ai_res
  task_id,         \* main(): task_id
  sel_task,        \* st.session_state['sel_task']
  run,             \* ghost: number of the batch run (runs that passed Init)
  analyze_calls,   \* ghost: calls of analyze_log in this run
  http_outcome,    \* ghost: how the POST of this run's analyze_log ended
  save_calls,      \* ghost: calls of save_batch_inspection in this run
  tasks_at_start,  \* ghost: committed task rows when this run began
  failed           \* ghost: the runs whose save_batch_inspection raised

store == <<db_devices, dev_seq, db_tasks, db_details>>
locals == <<devices, selected_model, futures, outcomes, device_results, all_raw_data,
            collected_count, ai_res, task_id>>
ghosts == <<run, analyze_calls, http_outcome, save_calls, tasks_at_start, failed>>
vars == <<db_devices, dev_seq, db_tasks, db_details, conn, pc, msg, devices,
          selected_model, futures, outcomes, device_results, all_raw_data,
          collected_count, ai_res, task_id, sel_task, run, analyze_calls,
          http_outcome, save_calls, tasks_at_start, failed>>

\* ------------------------------------------------------------- DBManager
\* a transaction with nothing in it
NoTxn == [tasks |-> <<>>, details |-> <<>>]

\* mutant: one connection is kept and shared by all script runs
connect_shared(old) == old

\* DBManager.__init__: sqlite3.connect opens a connection of its own; the
\* connection of the previous script run is dropped with whatever it had not
\* committed (SQLite rolls an unfinished transaction back)
connect(old) == NoTxn

\* what a SELECT through connection c sees: committed rows and c's own
\* uncommitted rows
visible_tasks(c) == db_tasks \o c.tasks
visible_details(c) == db_details \o c.details

\* DBManager.get_devices
get_devices == db_devices

\* DBManager.get_history_tasks: ORDER BY id DESC
get_history_tasks(c) ==
  LET t == visible_tasks(c)
  IN  [i \in 1..Len(t) |-> t[Len(t) + 1 - i]]

\* DBManager.get_task_details: WHERE task_id = {task_id}
get_task_details(c, tid) ==
  SelectSeq(visible_details(c), LAMBDA r : r.task_id = tid)

\* json.dumps / json.loads on the analysis result: the text of an object, and
\* "{}", the text of an empty one
json_dumps(d) == [json |-> "object", body |-> d]
json_loads(s) == s.body
EmptyObject ==
  [json |-> "{}", body |-> [score |-> 0, status |-> "", report_text |-> ""]]

\* dict.get(key, default) on a device result: the value stored under the key
\* when the key is present (also when that value is None), else the default
dict_get(d, key, default) ==
  IF key \in DOMAIN d THEN d[key] ELSE default

\* mutant: total is taken from the successful connections
task_row_successful(results, ai, model, tid, r) ==
  [id |-> tid,
   total_devices |-> Len(SelectSeq(results, LAMBDA x : x.success)),
   risk_count |-> 0, avg_score |-> dict_get(ai, "score", 0),
   model_used |-> model, run |-> r]

\* the INSERT into inspection_tasks of save_batch_inspection
task_row(results, ai, model, tid, r) ==
  [id |-> tid, total_devices |-> Len(results), risk_count |-> 0,
   avg_score |-> dict_get(ai, "score", 0), model_used |-> model, run |-> r]

\* mutant: the report row is written without the serialized result
report_row_no_json(ai, tid, did, r) ==
  [id |-> did, task_id |-> tid, device_name |-> AI_FULL_REPORT,
   device_ip |-> "0.0.0.0", raw_log |-> EmptyText,
   ai_json |-> EmptyObject, score |-> dict_get(ai, "score", 0),
   status |-> "COMPLETE_REPORT", run |-> r]

\* the INSERT of the report row
report_row(ai, tid, did, r) ==
  [id |-> did, task_id |-> tid, device_name |-> AI_FULL_REPORT,
   device_ip |-> "0.0.0.0", raw_log |-> EmptyText,
   ai_json |-> json_dumps(ai), score |-> dict_get(ai, "score", 0),
   status |-> "COMPLETE_REPORT", run |-> r]

\* mutant: every device row is written with status "Success"
device_row_all_success(res, tid, did, r) ==
  [id |-> did, task_id |-> tid, device_name |-> res.device.hostname,
   device_ip |-> res.device.ip,
   raw_log |-> dict_get(res, "raw_data",
                        dict_get(res, "error", [NoText EXCEPT !.kind = "No Data"])),
   ai_json |-> EmptyObject, score |-> 0, status |-> "Success", run |-> r]

\* the INSERT of one device's row
device_row(res, tid, did, r) ==
  [id |-> did, task_id |-> tid, device_name |-> res.device.hostname,
   device_ip |-> res.device.ip,
   raw_log |-> dict_get(res, "raw_data",
                        dict_get(res, "error", [NoText EXCEPT !.kind = "No Data"])),
   ai_json |-> EmptyObject, score |-> 0,
   status |-> IF res.success THEN "Success" ELSE "Connection Error",
   run |-> r]

\* mutant: the status of every device row is taken from the first result
detail_rows_first_status(results, ai, tid, base, r) ==
  <<report_row(ai, tid, base + 1, r)>> \o
  [i \in 1..Len(results) |->
     device_row([results[i] EXCEPT !.success = results[1].success],
                tid, base + 1 + i, r)]

\* the detail rows save_batch_inspection inserts, in order: the report row,
\* then one row per device result; ids continue the table's AUTOINCREMENT
detail_rows(results, ai, tid, base, r) ==
  <<report_row(ai, tid, base + 1, r)>> \o
  [i \in 1..Len(results) |-> device_row(results[i], tid, base + 1 + i, r)]

\* mutant: the commit of the task row is forgotten
commit_tasks_lost(c) == db_tasks

\* conn.commit(): everything the connection has pending becomes committed
commit_tasks(c) == db_tasks \o c.tasks
commit_details(c) == db_details \o c.details

\* -------------------------------------------------------- InspectorLogic
\* the text collect_data returns for a device it could read
log_text(device) ==
  [kind |-> "log", hostname |-> device.hostname, ip |-> device.ip]

\* collect_data: (True, log_text) when the session and every command went
\* through; any exception (on connect or on a command) is caught and gives
\* (False, "SSH Connect Error: ...")
collect_data(device, outcome) ==
  IF outcome = "ok"
  THEN [success |-> TRUE, raw_data |-> log_text(device)]
  ELSE [success |-> FALSE,
        raw_data |-> [kind |-> "SSH Connect Error", hostname |-> "", ip |-> ""]]

\* the try block of analyze_log: the dict it returns, or the exception that
\* leaves it (requests.post raising, or res.json() / .strip() failing)
Raised(e) == [score |-> 0, status |-> "raise", report_text |-> e]

try_post(http) ==
  CASE http = "200_text" ->
         [score |-> 100, status |-> "Report Generated", report_text |-> "response"]
    [] http = "200_empty" ->
         [score |-> 0, status |-> "Error", report_text |-> "empty report"]
    [] http = "non_200" ->
         [score |-> 0, status |-> "API Error", report_text |-> "API Error: body"]
    [] OTHER -> Raised(http)

\* mutant: only the two requests exceptions are caught
analyze_log_uncaught(http) ==
  LET r == try_post(http)
  IN  CASE r.status # "raise" -> r
        [] r = Raised("ReadTimeout") ->
             [score |-> 0, status |-> "Timeout", report_text |-> "timed out"]
        [] r = Raised("ConnectionError") ->
             [score |-> 0, status |-> "Conn Error", report_text |-> "cannot connect"]
        [] OTHER -> r

\* analyze_log: the try block and its three except clauses, in their order
analyze_log(http) ==
  LET r == try_post(http)
  IN  CASE r.status # "raise" -> r
        [] r = Raised("ReadTimeout") ->
             [score |-> 0, status |-> "Timeout", report_text |-> "timed out"]
        [] r = Raised("ConnectionError") ->
             [score |-> 0, status |-> "Conn Error", report_text |-> "cannot connect"]
        [] OTHER ->
             [score |-> 0, status |-> "Exception", report_text |-> "unknown exception"]

\* the result main() makes up itself when there is nothing to analyze
LocalFail == [score |-> 0, status |-> "Fail", report_text |-> "all devices failed"]

\* ------------------------------------------------------------------ main
NoResult == [score |-> 0, status |-> None, report_text |-> ""]
NoTask == [id |-> 0]

\* a script run is over (or none has begun): the page waits for the user
Resting == pc \in {"idle", "done", "crashed"}

\* the locals of main() before the inspection button is handled
ResetLocals ==
  /\ devices' = <<>>
  /\ selected_model' = None
  /\ futures' = <<>>
  /\ outcomes' = <<>>
  /\ device_results' = <<>>
  /\ all_raw_data' = <<>>
  /\ collected_count' = 0
  /\ ai_res' = NoResult
  /\ task_id' = 0
  /\ analyze_calls' = 0
  /\ http_outcome' = None
  /\ save_calls' = 0
  /\ tasks_at_start' = Len(db_tasks')

Init ==
  /\ db_devices = <<>>
  /\ dev_seq = 0
  /\ db_tasks = <<>>
  /\ db_details = <<>>
  /\ conn = NoTxn
  /\ pc = "idle"
  /\ msg = ""
  /\ devices = <<>>
  /\ selected_model = None
  /\ futures = <<>>
  /\ outcomes = <<>>
  /\ device_results = <<>>
  /\ all_raw_data = <<>>
  /\ collected_count = 0
  /\ ai_res = NoResult
  /\ task_id = 0
  /\ sel_task = NoTask
  /\ run = 0
  /\ analyze_calls = 0
  /\ http_outcome = None
  /\ save_calls = 0
  /\ tasks_at_start = 0
  /\ failed = {}

\* page "device management", form add_dev submitted: add_device when all four
\* inputs are non-empty (INSERT, then commit), else a warning
AddDevice ==
  /\ Resting
  /\ dev_seq < MaxAdds
  /\ \E h \in Hostnames, i \in IPs, u \in Usernames, p \in Passwords :
       LET c == connect(conn)
       IN  IF h # "" /\ i # "" /\ u # "" /\ p # ""
           THEN /\ db_devices' = Append(db_devices,
                     [id |-> dev_seq + 1, hostname |-> h, ip |-> i,
                      username |-> u, password |-> p, port |-> 22])
                /\ dev_seq' = dev_seq + 1
                /\ db_tasks' = commit_tasks(c)
                /\ db_details' = commit_details(c)
                /\ msg' = "added"
                /\ conn' = NoTxn
           ELSE /\ UNCHANGED store
                /\ msg' = "incomplete"
                /\ conn' = c
  /\ pc' = "idle"
  /\ ResetLocals
  /\ UNCHANGED <<sel_task, run, failed>>

\* mutant: deleting a device also deletes the detail rows that name it
DeleteDeviceCascade ==
  /\ Resting
  /\ \E k \in 1..Len(db_devices) :
       LET c == connect(conn)
           d_id == db_devices[k].id
       IN  /\ db_devices' = SelectSeq(db_devices, LAMBDA d : d.id # d_id)
           /\ db_tasks' = commit_tasks(c)
           /\ db_details' =
                SelectSeq(commit_details(c),
                          LAMBDA r : r.device_name # db_devices[k].hostname)
  /\ conn' = NoTxn
  /\ pc' = "idle"
  /\ msg' = ""
  /\ ResetLocals
  /\ UNCHANGED <<dev_seq, sel_task, run, failed>>

\* page "device management", form del_dev submitted: delete_device(d_id) for
\* an id of the select box (DELETE, then commit)
DeleteDevice ==
  /\ Resting
  /\ \E k \in 1..Len(db_devices) :
       LET c == connect(conn)
           d_id == db_devices[k].id
       IN  /\ db_devices' = SelectSeq(db_devices, LAMBDA d : d.id # d_id)
           /\ db_tasks' = commit_tasks(c)
           /\ db_details' = commit_details(c)
  /\ conn' = NoTxn
  /\ pc' = "idle"
  /\ msg' = ""
  /\ ResetLocals
  /\ UNCHANGED <<dev_seq, sel_task, run, failed>>

\* a future as submitted: its work item waits in the executor's queue, and
\* no session to its device exists
Queued ==
  [st |-> "queued", success |-> FALSE, raw_data |-> NoText, session |-> "none"]

\* the indexes of the futures in state st
InState(f, st) == {i \in 1..Len(f) : f[i].st = st}

\* every way the sessions to the devices of an inventory can end
AllOutcomes ==
  UNION {[1..n -> SessionOutcomes] : n \in 1..(IF MaxAdds > MaxDevices THEN MaxAdds ELSE MaxDevices)}

\* mutant: only the device list is checked
precheck_devices_only(devs, m) ==
  IF devs = <<>> THEN "no devices" ELSE "ok"

\* the two precondition checks of the inspection page, in their order:
\* st.warning + return without devices, st.error + return without a model
precheck(devs, m) ==
  IF devs = <<>> THEN "no devices"
  ELSE IF m = None THEN "no model"
  ELSE "ok"

\* page "inspection": the two precondition checks, then the button: every
\* device is submitted to ThreadPoolExecutor(max_workers=5) and the script
\* waits in as_completed.  limit bounds the batch runs of a behaviour, and
\* Ends is the set the devices' behaviour during the run is drawn from
\* (it holds the behaviours of inventories of every size).
BeginInspection(limit, Ends) ==
  /\ Resting
  /\ \E m \in ModelChoices :
       LET c == connect(conn)
           devs == get_devices
       IN  /\ conn' = c
           /\ UNCHANGED <<store, sel_task, failed>>
           /\ IF precheck(devs, m) # "ok"
              THEN /\ msg' = precheck(devs, m)
                   /\ pc' = "idle"
                   /\ ResetLocals
                   /\ UNCHANGED run
              ELSE /\ run < limit
                   /\ run' = run + 1
                   /\ msg' = "collecting"
                   /\ pc' = "collecting"
                   /\ devices' = devs
                   /\ selected_model' = m
                   /\ futures' = [i \in 1..Len(devs) |-> Queued]
                   /\ outcomes' \in {o \in Ends : Len(o) = Len(devs)}
                   /\ device_results' = <<>>
                   /\ all_raw_data' = <<>>
                   /\ collected_count' = 0
                   /\ ai_res' = NoResult
                   /\ task_id' = 0
                   /\ analyze_calls' = 0
                   /\ http_outcome' = None
                   /\ save_calls' = 0
                   /\ tasks_at_start' = Len(db_tasks)

StartInspection == BeginInspection(MaxBatches, AllOutcomes)

\* mutant: the pool starts a thread for every submitted work item
worker_unbounded(f) == TRUE

\* a worker thread of the pool exists for each running work item and the
\* pool never has more than max_workers threads
worker_free(f) == Cardinality(InState(f, "running")) < MAX_WORKERS

\* a worker thread takes the oldest work item from the queue and calls
\* collect_data
StartSession ==
  /\ pc = "collecting"
  /\ InState(futures, "queued") # {}
  /\ worker_free(futures)
  /\ LET i == CHOOSE j \in InState(futures, "queued") :
                \A k \in InState(futures, "queued") : j <= k
     IN  futures' = [futures EXCEPT ![i].st = "running"]
  /\ UNCHANGED <<store, conn, pc, msg, devices, selected_model, outcomes,
                 device_results, all_raw_data, collected_count, ai_res,
                 task_id, sel_task, ghosts>>

\* netmiko.ConnectHandler(**params) returns in a worker thread and the with
\* block is entered: the session to the device is open
OpenSession ==
  /\ pc = "collecting"
  /\ \E i \in InState(futures, "running") :
       /\ futures[i].session = "none"
       /\ outcomes[i] # "connect_error"
       /\ futures' = [futures EXCEPT ![i].session = "open"]
  /\ UNCHANGED <<store, conn, pc, msg, devices, selected_model, outcomes,
                 device_results, all_raw_data, collected_count, ai_res,
                 task_id, sel_task, ghosts>>

\* mutant: conn.disconnect() is called after the command loop, without a
\* with block, so an exception in the loop skips it
disconnect_after_loop(session, outcome) ==
  IF session = "open" /\ outcome = "ok" THEN "closed" ELSE session

\* the with block is left, by its end or by an exception of send_command:
\* __exit__ disconnects the session it was entered with
with_exit(session, outcome) ==
  IF session = "open" THEN "closed" ELSE session

\* mutant: the worker thread records its own result in the shared lists
FinishSessionAppends ==
  /\ pc = "collecting"
  /\ \E i \in InState(futures, "running") :
       LET r == collect_data(devices[i], outcomes[i])
       IN  /\ outcomes[i] = "connect_error" \/ futures[i].session = "open"
           /\ futures' = [futures EXCEPT ![i] =
                 [st |-> "finished", success |-> r.success,
                  raw_data |-> r.raw_data,
                  session |-> with_exit(futures[i].session, outcomes[i])]]
           /\ collected_count' = collected_count + 1
           /\ device_results' =
                Append(device_results,
                       [device |-> devices[i], success |-> r.success,
                        raw_data |-> IF r.success THEN r.raw_data ELSE NoText,
                        error |-> IF ~r.success THEN r.raw_data ELSE NoText])
  /\ UNCHANGED <<store, conn, pc, msg, devices, selected_model, outcomes,
                 all_raw_data, ai_res, task_id, sel_task, ghosts>>

\* collect_data returns in a worker thread and the future holds its result:
\* ConnectHandler raised, or the with block was left
FinishSession ==
  /\ pc = "collecting"
  /\ \E i \in InState(futures, "running") :
       LET r == collect_data(devices[i], outcomes[i])
       IN  /\ outcomes[i] = "connect_error" \/ futures[i].session = "open"
           /\ futures' = [futures EXCEPT ![i] =
                 [st |-> "finished", success |-> r.success,
                  raw_data |-> r.raw_data,
                  session |-> with_exit(futures[i].session, outcomes[i])]]
  /\ UNCHANGED <<store, conn, pc, msg, devices, selected_model, outcomes,
                 device_results, all_raw_data, collected_count, ai_res,
                 task_id, sel_task, ghosts>>

\* the dict main() builds from a future's result
result_of(dev, success, raw_data) ==
  [device |-> dev, success |-> success,
   raw_data |-> IF success THEN raw_data ELSE NoText,
   error |-> IF ~success THEN raw_data ELSE NoText]

\* mutant: a failed session's result is dropped instead of recorded
DrainSuccessOnly ==
  /\ pc = "collecting"
  /\ \E i \in InState(futures, "finished") :
       LET dev == devices[i]
           success == futures[i].success
           raw_data == futures[i].raw_data
       IN  /\ futures' = [futures EXCEPT ![i].st = "yielded"]
           /\ collected_count' = collected_count + 1
           /\ device_results' =
                IF success
                THEN Append(device_results, result_of(dev, success, raw_data))
                ELSE device_results
           /\ all_raw_data' =
                IF success
                THEN Append(all_raw_data,
                       [hostname |-> dev.hostname, ip |-> dev.ip, raw_data |-> raw_data])
                ELSE all_raw_data
  /\ UNCHANGED <<store, conn, pc, msg, devices, selected_model, outcomes,
                 ai_res, task_id, sel_task, ghosts>>

\* one iteration of the as_completed loop, in the script's own thread
Drain ==
  /\ pc = "collecting"
  /\ \E i \in InState(futures, "finished") :
       LET dev == devices[i]
           success == futures[i].success
           raw_data == futures[i].raw_data
       IN  /\ futures' = [futures EXCEPT ![i].st = "yielded"]
           /\ collected_count' = collected_count + 1
           /\ device_results' =
                Append(device_results, result_of(dev, success, raw_data))
           /\ all_raw_data' =
                IF success
                THEN Append(all_raw_data,
                       [hostname |-> dev.hostname, ip |-> dev.ip, raw_data |-> raw_data])
                ELSE all_raw_data
  /\ UNCHANGED <<store, conn, pc, msg, devices, selected_model, outcomes,
                 ai_res, task_id, sel_task, ghosts>>

\* mutant: the test is "is not None", which an empty text passes
strip_not_none(raw) == TRUE

\* the truth value of all_raw_data.strip(): every section that was appended
\* has a header line, so the text is blank exactly when none was appended
strip(raw) == raw # <<>>

\* mutant: the loop waits until every session has succeeded
drained_when_all_succeed(f) ==
  \A i \in 1..Len(f) : f[i].st = "yielded" /\ f[i].success

\* mutant: the loop is left at the first completed future
drained_at_first(f) == \E i \in 1..Len(f) : f[i].st = "yielded"

\* the loop and the executor's with-block are left when every future was
\* yielded; then analyze_log is called, or the result is made up locally
collection_drained(f) == \A i \in 1..Len(f) : f[i].st = "yielded"

DecideAnalysis ==
  /\ pc = "collecting"
  /\ collection_drained(futures)
  /\ IF strip(all_raw_data)
     THEN /\ pc' = "analyzing"
          /\ msg' = "analyzing"
          /\ analyze_calls' = analyze_calls + 1
          /\ UNCHANGED ai_res
     ELSE /\ pc' = "persisting"
          /\ msg' = "saving"
          /\ ai_res' = LocalFail
          /\ UNCHANGED analyze_calls
  /\ UNCHANGED <<store, conn, devices, selected_model, futures, outcomes,
                 device_results, all_raw_data, collected_count, task_id,
                 sel_task, run, http_outcome, save_calls, tasks_at_start,
                 failed>>

\* mutant: a timed-out request is sent once more
AnalyzeRetries ==
  /\ pc = "analyzing"
  /\ \E http \in HttpOutcomes :
       IF http = "ReadTimeout" /\ analyze_calls < 2
       THEN /\ analyze_calls' = analyze_calls + 1
            /\ UNCHANGED <<pc, msg, ai_res, http_outcome>>
       ELSE /\ ai_res' = analyze_log(http)
            /\ http_outcome' = http
            /\ pc' = "persisting"
            /\ msg' = "saving"
            /\ UNCHANGED analyze_calls
  /\ UNCHANGED <<store, conn, devices, selected_model, futures, outcomes,
                 device_results, all_raw_data, collected_count, task_id,
                 sel_task, run, save_calls, tasks_at_start, failed>>

\* requests.post returns or raises, and analyze_log returns its dict
AnalyzeReturns ==
  /\ pc = "analyzing"
  /\ \E http \in HttpOutcomes :
       /\ http_outcome' = http
       /\ ai_res' = analyze_log(http)
  /\ pc' = "persisting"
  /\ msg' = "saving"
  /\ UNCHANGED <<store, conn, devices, selected_model, futures, outcomes,
                 device_results, all_raw_data, collected_count, task_id,
                 sel_task, run, analyze_calls, save_calls, tasks_at_start,
                 failed>>

\* the transaction of connection c after the first n detail INSERTs of
\* save_batch_inspection (the task row is always the first INSERT)
inserted(c, results, ai, model, r, n) ==
  LET tid == Len(visible_tasks(c)) + 1
      base == Len(visible_details(c))
  IN  [tasks |-> Append(c.tasks, task_row(results, ai, model, tid, r)),
       details |-> c.details \o
                   SubSeq(detail_rows(results, ai, tid, base, r), 1, n)]

\* save_batch_inspection runs to its commit and returns cursor.lastrowid of
\* the task row
SaveBatch ==
  /\ pc = "persisting"
  /\ LET c == inserted(conn, device_results, ai_res, selected_model, run,
                       Len(device_results) + 1)
     IN  /\ db_tasks' = commit_tasks(c)
         /\ db_details' = commit_details(c)
         /\ task_id' = c.tasks[Len(c.tasks)].id
  /\ conn' = NoTxn
  /\ save_calls' = save_calls + 1
  /\ pc' = "done"
  /\ msg' = "finished"
  /\ UNCHANGED <<db_devices, dev_seq, devices, selected_model, futures,
                 outcomes, device_results, all_raw_data, collected_count, ai_res,
                 sel_task, run, analyze_calls, http_outcome, tasks_at_start,
                 failed>>

\* save_batch_inspection raises after the task row and n detail rows were
\* inserted (while serializing, in an INSERT, or in the commit): nothing
\* catches it, nothing rolls back, and the script run ends with the exception
SaveBatchFails ==
  /\ pc = "persisting"
  /\ \E n \in 0..(Len(device_results) + 1) :
       conn' = inserted(conn, device_results, ai_res, selected_model, run, n)
  /\ save_calls' = save_calls + 1
  /\ failed' = failed \cup {run}
  /\ pc' = "crashed"
  /\ msg' = "exception"
  /\ UNCHANGED <<store, devices, selected_model, futures, outcomes,
                 device_results,
                 all_raw_data, collected_count, ai_res, task_id, sel_task,
                 run, analyze_calls, http_outcome, tasks_at_start>>

\* page "history": a task button is clicked and the row is kept in
\* st.session_state['sel_task']
SelectTask ==
  /\ Resting
  /\ LET c == connect(conn)
         tasks == get_history_tasks(c)
     IN  /\ conn' = c
         /\ \E k \in 1..Len(tasks) : sel_task' = tasks[k]
  /\ pc' = "idle"
  /\ msg' = ""
  /\ UNCHANGED <<store, run, failed>>
  /\ ResetLocals

\* --------------------------------------------------------- specifications
Next ==
  \/ AddDevice
  \/ DeleteDevice
  \/ StartInspection
  \/ StartSession
  \/ OpenSession
  \/ FinishSession
  \/ Drain
  \/ DecideAnalysis
  \/ AnalyzeReturns
  \/ SaveBatch
  \/ SelectTask

Spec == Init /\ [][Next]_vars

\* the program with a store whose writes can fail part-way through
NextFault == Next \/ SaveBatchFails

SpecFault == Init /\ [][NextFault]_vars

\* a batch run is never abandoned by the scheduler: worker threads run, the
\* blocking calls return within their timeouts, the script thread goes on
Fairness ==
  /\ WF_vars(StartSession)
  /\ WF_vars(OpenSession)
  /\ WF_vars(FinishSession)
  /\ WF_vars(Drain)
  /\ WF_vars(DecideAnalysis)
  /\ WF_vars(AnalyzeReturns)
  /\ WF_vars(SaveBatch)

LiveSpec == Spec /\ Fairness

\* an inventory of n devices as n calls of add_device leave it
DeviceNames == <<"SW1", "SW2", "SW3", "SW4", "SW5", "SW6", "SW7", "SW8">>

Inventory(n) ==
  [i \in 1..n |-> [id |-> i, hostname |-> DeviceNames[i], ip |-> "10.0.0.1",
                   username |-> "admin", password |-> "secret", port |-> 22]]

\* Init, with the store holding an inventory of n devices and no history
InitWith(n) ==
  /\ db_devices = Inventory(n)
  /\ dev_seq = n
  /\ db_tasks = <<>>
  /\ db_details = <<>>
  /\ conn = NoTxn
  /\ pc = "idle"
  /\ msg = ""
  /\ devices = <<>>
  /\ selected_model = None
  /\ futures = <<>>
  /\ outcomes = <<>>
  /\ device_results = <<>>
  /\ all_raw_data = <<>>
  /\ collected_count = 0
  /\ ai_res = NoResult
  /\ task_id = 0
  /\ sel_task = NoTask
  /\ run = 0
  /\ analyze_calls = 0
  /\ http_outcome = None
  /\ save_calls = 0
  /\ tasks_at_start = 0
  /\ failed = {}

\* one batch run over an inventory of up to MaxDevices devices
RunInit == \E n \in 0..MaxDevices : InitWith(n)

StartOneInspection == BeginInspection(1, AllOutcomes)

RunNext ==
  \/ StartOneInspection
  \/ StartSession
  \/ OpenSession
  \/ FinishSession
  \/ Drain
  \/ DecideAnalysis
  \/ AnalyzeReturns
  \/ SaveBatch

RunSpec == RunInit /\ [][RunNext]_vars

LiveRunSpec == RunSpec /\ Fairness

\* one batch run over more devices than the pool has workers
PoolInit == InitWith(MAX_WORKERS + Excess)

\* the devices' behaviour in the pool specification: all sessions succeed,
\* all fail to connect, or exactly one fails
PoolOutcomes ==
  LET n == MAX_WORKERS + Excess
  IN  {[i \in 1..n |-> "ok"], [i \in 1..n |-> "connect_error"]} \cup
      {[i \in 1..n |-> IF i = k THEN "command_error" ELSE "ok"] : k \in 1..n}

StartPoolInspection == BeginInspection(1, PoolOutcomes)

PoolNext ==
  \/ StartPoolInspection
  \/ StartSession
  \/ OpenSession
  \/ FinishSession
  \/ Drain
  \/ DecideAnalysis
  \/ AnalyzeReturns
  \/ SaveBatch

PoolSpec == PoolInit /\ [][PoolNext]_vars

\* ------------------------------------------------------------ properties
\* the run has started and has not ended
InRun == pc \in {"collecting", "analyzing", "persisting"}

\* the devices of this run whose session succeeds / fails
Succeeding == {i \in 1..Len(devices) : outcomes[i] = "ok"}
Failing == {i \in 1..Len(devices) : outcomes[i] # "ok"}

\* the committed task rows written by run r
TasksOfRun(r) == {i \in 1..Len(db_tasks) : db_tasks[i].run = r}

\* C1: a batch run that passed the preconditions calls save_batch_inspection
\* exactly once and leaves exactly one inspection_tasks row: none before the
\* save, one after it, never two, whichever devices failed and however the
\* analysis ended
C1_TaskPersistedExactlyOnce ==
  /\ InRun => /\ save_calls = 0
              /\ TasksOfRun(run) = {}
              /\ Len(db_tasks) = tasks_at_start
  /\ pc = "done" => /\ save_calls = 1
                    /\ Cardinality(TasksOfRun(run)) = 1
                    /\ Len(db_tasks) = tasks_at_start + 1

C1_Witness ==
  /\ pc = "done"
  /\ Len(devices) = 3
  /\ Cardinality(Failing) = 2
  /\ ai_res.status = "Timeout"
  /\ save_calls = 1

\* C2: under fairness a run that has begun collecting, analyzing or
\* persisting reaches Done with a task id
C2_RunReachesDone == InRun ~> (pc = "done" /\ task_id > 0)

C2_Witness ==
  /\ pc = "done"
  /\ task_id > 0
  /\ Len(devices) = 2
  /\ Succeeding = {}
  /\ analyze_calls = 0

\* the positions of device_results that hold the outcome of device i
ResultsOf(i) ==
  {k \in 1..Len(device_results) : device_results[k].device = devices[i]}

\* C3: once collection has finished device_results holds exactly one
\* outcome per input device: a success with the device's log, or a failure
\* with the reason, so its length is the number of devices
C3_OneOutcomePerDevice ==
  pc \in {"analyzing", "persisting", "done"} =>
    /\ Len(device_results) = Len(devices)
    /\ \A i \in 1..Len(devices) :
         /\ Cardinality(ResultsOf(i)) = 1
         /\ \A k \in ResultsOf(i) :
              /\ device_results[k].success = (outcomes[i] = "ok")
              /\ ~device_results[k].success =>
                   device_results[k].error.kind = "SSH Connect Error"

C3_Witness ==
  /\ pc = "analyzing"
  /\ Len(devices) = 3
  /\ Len(device_results) = 3
  /\ Cardinality(Failing) = 1
  /\ ~device_results[1].success

\* the report row committed by run r, as the analysis result it carries
ReportsOfRun(r) ==
  {json_loads(db_details[k].ai_json) :
     k \in {j \in 1..Len(db_details) :
              db_details[j].run = r /\ db_details[j].id = Len(db_details) - Len(devices)}}

\* C4: when every device fails the combined transcript is empty, analyze_log
\* is not called, and the result that is persisted is the local one with
\* status "Fail"
C4_AllFailSkipsAnalysis ==
  (pc \in {"analyzing", "persisting", "done"} /\ Succeeding = {}) =>
    /\ all_raw_data = <<>>
    /\ analyze_calls = 0
    /\ pc # "analyzing"
    /\ ai_res = LocalFail
    /\ pc = "done" => ReportsOfRun(run) = {LocalFail}

C4_Witness ==
  /\ pc = "done"
  /\ Len(devices) = 3
  /\ Succeeding = {}
  /\ ai_res.status = "Fail"

\* C5: when at least one device succeeds analyze_log is called exactly once
\* (one POST, no retry) and the run passes through Analyzing; it is skipped
\* only when no device succeeded
C5_AnalyzeExactlyOnce ==
  /\ analyze_calls <= 1
  /\ pc = "analyzing" => analyze_calls = 1 /\ Succeeding # {}
  /\ pc \in {"persisting", "done"} =>
       analyze_calls = (IF Succeeding # {} THEN 1 ELSE 0)

C5_Witness ==
  /\ pc = "done"
  /\ Len(devices) = 3
  /\ Cardinality(Succeeding) = 1
  /\ analyze_calls = 1

\* C6: the phases follow one another: analysis (or the decision to skip it)
\* begins only when no session is queued or running and every result was
\* taken, and the save begins only when the analysis result exists
C6_PhasesSequential ==
  /\ (pc \in {"analyzing", "persisting", "done"} \/ analyze_calls > 0
        \/ ai_res # NoResult) =>
       /\ InState(futures, "queued") = {}
       /\ InState(futures, "running") = {}
       /\ InState(futures, "finished") = {}
       /\ collected_count = Len(devices)
  /\ (pc \in {"persisting", "done"} \/ save_calls > 0) =>
       /\ ai_res # NoResult
       /\ analyze_calls = 0 => ai_res = LocalFail
  /\ pc \in {"collecting", "analyzing"} =>
       /\ ai_res = NoResult
       /\ save_calls = 0
       /\ TasksOfRun(run) = {}

C6_Witness ==
  /\ pc = "analyzing"
  /\ Len(devices) = 3
  /\ InState(futures, "yielded") = {1, 2, 3}

\* the sessions running in worker threads
Running == InState(futures, "running")

\* C7: at most 5 collect_data calls run at any moment however many devices
\* there are; a device beyond that waits in the queue exactly while 5 are
\* running, a waiting device is never stuck (a worker can take it, or a
\* running session can end), and when collection is over every device was run
C7_WorkerBudget ==
  /\ Cardinality(Running) <= MAX_WORKERS
  /\ InState(futures, "queued") # {} =>
       /\ pc = "collecting"
       /\ Cardinality(Running) < MAX_WORKERS => ENABLED StartSession
       /\ Cardinality(Running) = MAX_WORKERS =>
            /\ ~ENABLED StartSession
            /\ ENABLED OpenSession \/ ENABLED FinishSession
  /\ pc \in {"analyzing", "persisting", "done"} =>
       \A i \in 1..Len(devices) : Cardinality(ResultsOf(i)) = 1

C7_Witness ==
  /\ Len(devices) > MAX_WORKERS
  /\ Cardinality(Running) = MAX_WORKERS
  /\ MAX_WORKERS + 1 \in Running
  /\ InState(futures, "yielded") # {}

\* the committed detail rows of task tid
DetailsOf(tid) == {k \in 1..Len(db_details) : db_details[k].task_id = tid}

C9_OneReportRow ==
  \A t \in 1..Len(db_tasks) :
    Cardinality({k \in DetailsOf(db_tasks[t].id) :
                   db_details[k].device_name = AI_FULL_REPORT}) = 1

\* what a script run that starts now reads through its connection
ReaderTasks == get_history_tasks(connect(conn))
ReaderDetails(tid) == get_task_details(connect(conn), tid)

\* C10: a save that raised after inserting the task row leaves no row of its
\* batch committed or visible to a reader, now or after any later operation;
\* a task that is visible is visible with all its total_devices + 1 rows
C10_AtomicSave ==
  /\ \A t \in 1..Len(db_tasks) : db_tasks[t].run \notin failed
  /\ \A k \in 1..Len(db_details) : db_details[k].run \notin failed
  /\ \A t \in 1..Len(ReaderTasks) :
       /\ ReaderTasks[t].run \notin failed
       /\ Len(ReaderDetails(ReaderTasks[t].id)) = ReaderTasks[t].total_devices + 1
       /\ \A k \in 1..Len(ReaderDetails(ReaderTasks[t].id)) :
            ReaderDetails(ReaderTasks[t].id)[k].run = ReaderTasks[t].run
  /\ pc \in {"collecting", "analyzing", "persisting", "crashed"} =>
       /\ TasksOfRun(run) = {}
       /\ \A k \in 1..Len(db_details) : db_details[k].run # run

\* a save raised part-way, and afterwards delete_device committed
C10_Witness ==
  /\ failed # {}
  /\ pc = "idle"
  /\ dev_seq > 0
  /\ db_devices = <<>>
  /\ db_tasks = <<>>
  /\ db_details = <<>>

\* the statuses an analysis result can have
AnalysisStatuses ==
  {"Report Generated", "Error", "API Error", "Conn Error", "Timeout",
   "Exception", "Fail"}

\* the committed detail rows of task tid that carry a serialized result
ResultRowsOf(tid) ==
  {k \in DetailsOf(tid) : db_details[k].ai_json.json = "object"}

\* C11 (as claimed): the status field of the report row records the status
\* of the run's analysis result
C11_StatusFieldRecordsAnalysis ==
  \A t \in 1..Len(db_tasks) :
    \A k \in ResultRowsOf(db_tasks[t].id) :
      db_details[k].status = json_loads(db_details[k].ai_json).status

\* C11 (amended): every persisted batch has exactly one report row whatever
\* the analysis outcome; its status field is the constant "COMPLETE_REPORT"
\* and its ai_json holds the run's analysis result, whose status tells a
\* failed or skipped analysis from a successful one
C11_ReportRowCarriesResult ==
  /\ \A t \in 1..Len(db_tasks) :
       /\ Cardinality(ResultRowsOf(db_tasks[t].id)) = 1
       /\ \A k \in ResultRowsOf(db_tasks[t].id) :
            /\ db_details[k].status = "COMPLETE_REPORT"
            /\ json_loads(db_details[k].ai_json).status \in AnalysisStatuses
  /\ pc = "done" =>
       \A k \in ResultRowsOf(task_id) :
         /\ json_loads(db_details[k].ai_json) = ai_res
         /\ (ai_res.status = "Fail") = (analyze_calls = 0)

C11_Witness ==
  /\ pc = "done"
  /\ analyze_calls = 1
  /\ \E k \in ResultRowsOf(task_id) :
       /\ json_loads(db_details[k].ai_json).status = "Timeout"
       /\ db_details[k].status = "COMPLETE_REPORT"

\* the status the specification gives for each way the request can end
StatusFor(h) ==
  CASE h = "ReadTimeout" -> "Timeout"
    [] h = "ConnectionError" -> "Conn Error"
    [] h = "non_200" -> "API Error"
    [] h = "200_empty" -> "Error"
    [] h = "200_text" -> "Report Generated"
    [] h = "other" -> "Exception"

\* C12: analyze_log never raises: however the request ends, the run goes on
\* with a result whose status is the one status that belongs to that ending
\* (receive timeout: Timeout, connection failure: Conn Error, non-200: API
\* Error, 200 with empty text: Error, 200 with text: Report Generated, any
\* other fault: Exception)
C12_AnalyzeLogTotal ==
  /\ pc = "analyzing" => http_outcome = None /\ ai_res = NoResult
  /\ http_outcome # None =>
       /\ pc \in {"persisting", "done", "crashed"}
       /\ analyze_calls = 1
       /\ ai_res.status # "raise"
       /\ ai_res.status = StatusFor(http_outcome)
       /\ (ai_res.score = 100) = (http_outcome = "200_text")
  /\ pc \in {"persisting", "done"} /\ analyze_calls = 1 =>
       http_outcome \in HttpOutcomes

C12_Witness ==
  /\ pc = "persisting"
  /\ http_outcome = "other"
  /\ ai_res.status = "Exception"

\* the rows of a task the program takes for device rows: those whose name is
\* not the reserved one (details[details['device_name'] != 'AI_FULL_REPORT'])
non_report_rows(rows) ==
  SelectSeq(rows, LAMBDA r : r.device_name # AI_FULL_REPORT)

\* C13: reading back the task a batch has just saved gives non-report rows
\* whose (device_name, device_ip) pairs are exactly the (hostname, ip) pairs
\* of the devices passed in, no row of another task, and a task row with
\* total_devices = len(outcomes) and model_used = model
C13_RoundTrip ==
  pc = "done" =>
    LET rows == get_task_details(connect(conn), task_id)
        nr == non_report_rows(rows)
    IN  /\ Len(nr) = Len(device_results)
        /\ {<<nr[k].device_name, nr[k].device_ip>> : k \in 1..Len(nr)} =
           {<<device_results[k].device.hostname, device_results[k].device.ip>> :
              k \in 1..Len(device_results)}
        /\ \A k \in 1..Len(rows) : rows[k].task_id = task_id /\ rows[k].run = run
        /\ \E t \in 1..Len(db_tasks) :
             /\ db_tasks[t].id = task_id
             /\ db_tasks[t].total_devices = Len(device_results)
             /\ db_tasks[t].model_used = selected_model

\* the page stopped at a precondition check
Rejected == msg \in {"no devices", "no model"}

\* C14: with an empty device list or without a model the run stops before
\* collection: no future is submitted, analyze_log and save_batch_inspection
\* are not called and the step writes no row; a run that passed the two
\* checks had devices and a model, and it ends only by persisting its task
C14_PreconditionsStopRun ==
  /\ [](Rejected =>
          /\ pc = "idle"
          /\ futures = <<>>
          /\ analyze_calls = 0
          /\ save_calls = 0
          /\ msg = "no devices" => db_devices = <<>>
          /\ msg = "no model" => db_devices # <<>>)
  /\ [][Rejected' =>
          /\ db_tasks' = db_tasks
          /\ db_details' = db_details
          /\ run' = run]_vars
  /\ [](InRun => devices # <<>> /\ selected_model # None)
  /\ [][InRun /\ ~InRun' =>
          /\ pc' = "done"
          /\ Len(db_tasks') = Len(db_tasks) + 1
          /\ db_tasks'[Len(db_tasks')].run = run]_vars

C14_Witness ==
  /\ msg = "no model"
  /\ Len(db_devices) = 1
  /\ pc = "idle"
  /\ db_tasks = <<>>

\* the futures whose session to the device is open
OpenSessions == {i \in 1..Len(futures) : futures[i].session = "open"}

\* C15: a session is open only while its collect_data call is running; once
\* the call has returned, after all commands or after a command that raised,
\* the session it opened is closed, and when collection is over no session
\* is open
C15_SessionsClosed ==
  /\ \A i \in OpenSessions : futures[i].st = "running"
  /\ \A i \in 1..Len(futures) :
       futures[i].st \in {"finished", "yielded"} =>
         futures[i].session =
           (IF outcomes[i] = "connect_error" THEN "none" ELSE "closed")
  /\ pc \in {"analyzing", "persisting", "done"} =>
       /\ OpenSessions = {}
       /\ Len(futures) = Len(devices)

C15_Witness ==
  /\ pc = "collecting"
  /\ \E i \in 1..Len(futures) :
       /\ outcomes[i] = "command_error"
       /\ futures[i].st = "finished"
       /\ futures[i].session = "closed"
  /\ \E i \in 1..Len(futures) :
       /\ outcomes[i] = "ok"
       /\ futures[i].st = "yielded"
       /\ futures[i].session = "closed"
  /\ OpenSessions # {}

\* the committed detail rows of task tid with status st
RowsWithStatus(tid, st) == {k \in DetailsOf(tid) : db_details[k].status = st}

\* the sections of the combined transcript that belong to device i
SectionsOf(i) ==
  {k \in 1..Len(all_raw_data) :
     /\ all_raw_data[k].hostname = devices[i].hostname
     /\ all_raw_data[k].ip = devices[i].ip}

\* C16: when collection is over the combined transcript has one section for
\* each device that succeeded and none for a device that failed; the saved
\* batch has as many "Success" rows as devices succeeded, as many
\* "Connection Error" rows as failed, one report row, and total_devices
\* counts all devices
C16_CountsMatch ==
  /\ pc \in {"analyzing", "persisting", "done"} =>
       /\ Len(all_raw_data) = Cardinality(Succeeding)
       /\ \A i \in Succeeding : Cardinality(SectionsOf(i)) = 1
       /\ \A i \in Failing : SectionsOf(i) = {}
  /\ pc = "done" =>
       /\ Cardinality(RowsWithStatus(task_id, "Success")) = Cardinality(Succeeding)
       /\ Cardinality(RowsWithStatus(task_id, "Connection Error")) =
            Cardinality(Failing)
       /\ Cardinality(RowsWithStatus(task_id, "COMPLETE_REPORT")) = 1
       /\ Cardinality(DetailsOf(task_id)) = Len(devices) + 1
       /\ \A t \in TasksOfRun(run) : db_tasks[t].total_devices = Len(devices)

C16_Witness ==
  /\ pc = "done"
  /\ Len(devices) = 3
  /\ Cardinality(Succeeding) = 2
  /\ Len(all_raw_data) = 2
  /\ Cardinality(DetailsOf(task_id)) = 4
  /\ Cardinality(RowsWithStatus(task_id, "Success")) = 2
  /\ Cardinality(RowsWithStatus(task_id, "Connection Error")) = 1
  /\ \E t \in TasksOfRun(run) : db_tasks[t].total_devices = 3

\* sequence s is the beginning of sequence t
IsPrefix(s, t) == Len(s) <= Len(t) /\ SubSeq(t, 1, Len(s)) = s

C18_FailureReasonStored ==
  pc = "done" =>
    \A k \in RowsWithStatus(task_id, "Connection Error") :
      db_details[k].raw_log.kind = "SSH Connect Error"

\* the accumulation state of a run
Accumulated == <<device_results, all_raw_data, collected_count>>

\* C19: device_results, all_raw_data and collected_count change only in an
\* iteration of the as_completed loop (or when a new script run resets them):
\* a step of a worker thread leaves them alone; an iteration takes one
\* finished future, adds 1 to collected_count and appends that device's
\* outcome, so each yielded device has exactly one outcome, none is lost,
\* and collected_count never passes len(devices)
C19_SingleWriter ==
  /\ [](/\ collected_count = Len(device_results)
        /\ collected_count = Cardinality(InState(futures, "yielded"))
        /\ collected_count <= Len(devices)
        /\ \A i \in 1..Len(futures) :
             Cardinality(ResultsOf(i)) =
               (IF futures[i].st = "yielded" THEN 1 ELSE 0)
        /\ pc \in {"analyzing", "persisting", "done"} =>
             collected_count = Len(devices))
  /\ [][Accumulated' # Accumulated =>
          \/ Accumulated' = <<<<>>, <<>>, 0>>
          \/ /\ pc = "collecting" /\ pc' = "collecting"
             /\ collected_count' = collected_count + 1
             /\ \E i \in InState(futures, "finished") :
                  /\ futures' = [futures EXCEPT ![i].st = "yielded"]
                  /\ device_results' =
                       Append(device_results,
                              result_of(devices[i], futures[i].success,
                                        futures[i].raw_data))]_vars
  /\ [][(\E i \in 1..Len(futures) :
           /\ Len(futures') = Len(futures)
           /\ futures'[i] # futures[i]
           /\ futures'[i].st \in {"running", "finished"}) =>
          Accumulated' = Accumulated]_vars

C19_Witness ==
  /\ pc = "collecting"
  /\ collected_count = 2
  /\ Len(devices) = 3
  /\ InState(futures, "running") # {}
  /\ device_results[1].device = devices[3]

\* device_results as a run gives it when the sessions complete in the order
\* the devices were submitted
InOrderResults ==
  [i \in 1..Len(devices) |->
     LET r == collect_data(devices[i], outcomes[i])
     IN  result_of(devices[i], r.success, r.raw_data)]

\* the committed detail rows of the run's task, and the rows the run commits
\* when the sessions complete in submission order
SavedRows == {db_details[k] : k \in DetailsOf(task_id)}

InOrderRows ==
  LET rows == detail_rows(InOrderResults, ai_res, task_id,
                          Len(db_details) - Len(devices) - 1, run)
  IN  {rows[k] : k \in 1..Len(rows)}

\* a row without its AUTOINCREMENT id
NoId(r) == [r EXCEPT !.id = 0]

\* C20 (as claimed): the set of persisted detail rows of a run is the same
\* for every completion order of the sessions
C20_RowsOrderIndependent ==
  pc = "done" => SavedRows = InOrderRows

\* C20 (amended): for given devices and per-device outcomes the set of
\* recorded outcomes, the set of sections of the combined transcript, the
\* decision to analyze or skip, and the set of persisted detail rows apart
\* from their ids do not depend on the order in which the sessions complete
C20_OrderIndependent ==
  pc \in {"analyzing", "persisting", "done"} =>
    /\ {device_results[k] : k \in 1..Len(device_results)} =
       {InOrderResults[i] : i \in 1..Len(devices)}
    /\ {all_raw_data[k] : k \in 1..Len(all_raw_data)} =
       {[hostname |-> devices[i].hostname, ip |-> devices[i].ip,
         raw_data |-> log_text(devices[i])] : i \in Succeeding}
    /\ (analyze_calls = 1) = (Succeeding # {})
    /\ (ai_res = LocalFail) = (Succeeding = {}) \/ pc = "analyzing"
    /\ pc = "done" =>
         /\ {NoId(r) : r \in SavedRows} = {NoId(r) : r \in InOrderRows}
         /\ Cardinality(SavedRows) = Cardinality(InOrderRows)

C20_Witness ==
  /\ pc = "done"
  /\ Len(devices) = 3
  /\ device_results[1].device = devices[3]
  /\ device_results[3].device = devices[1]
  /\ outcomes[1] = "ok"
  /\ outcomes[3] = "connect_error"
  /\ SavedRows # InOrderRows

====
